---------------------------- MODULE Spec2Model ----------------------------
(***************************************************************************)
(* Model of python-server/app.py: the startup hook load_model and the      *)
(* POST /denoise handler with its helpers read_wav, normalize_audio,       *)
(* write_wav_bytes and analyze_audio.                                      *)
(*                                                                         *)
(* Numbers.  A float32 sample is modelled by the exact rational it holds,  *)
(* a pair <<n, d>> in lowest terms with d > 0.  Uploads are integer PCM,   *)
(* so every magnitude that reaches a normaliser is either 0 or at least    *)
(* 1 / (2 * MaxAmp); for such a float32 value m the sum m + 1e-9 rounds    *)
(* back to m, and for m = 0 the quotient is 0 / 1e-9 = 0.  Float rounding  *)
(* of quotients and products is not modelled.                              *)
(***************************************************************************)
EXTENDS Integers, Sequences, FiniteSets, TLC

\* ------------------------------------------------------------- bounds
\* Frames per single-channel upload, largest PCM magnitude, and how many
\* samples too long an inference output may be.
MaxFrames == 3
MaxAmp == 1
ExtraOut == 1
\* Frame length.  app.py sets SEGMENT = 32000; the model scales it down so
\* that padded signals stay enumerable.
SEGMENT == 2

\* ---------------------------------------------------- program constants
SR == 16000
HeadroomNum == 99
HeadroomDen == 100
FullScale == 32767

\* Sample rates an upload's header may carry.
SampleRates == {8000, SR}

\* Frame counts of the two-channel uploads.
StereoLengths == {0, 1, 2}

\* ------------------------------------------------ float32 as rationals
Abs(n) == IF n < 0 THEN -n ELSE n

RECURSIVE GCD(_, _)
GCD(a, b) == IF b = 0 THEN a ELSE GCD(b, a % b)

Rat(n, d) ==
    IF n = 0 THEN <<0, 1>>
    ELSE LET g == GCD(Abs(n), Abs(d))
             s == IF d < 0 THEN -1 ELSE 1
         IN  <<(s * n) \div g, (s * d) \div g>>

Zero == Rat(0, 1)
FromInt(n) == Rat(n, 1)
RAbs(x) == <<Abs(x[1]), x[2]>>
RLess(x, y) == x[1] * y[2] < y[1] * x[2]
RDiv(x, y) == Rat(x[1] * y[2], x[2] * y[1])

\* np.max(np.abs(x)) of a non-empty array.
RECURSIVE AbsMaxFrom(_, _, _)
AbsMaxFrom(x, i, best) ==
    IF i > Len(x) THEN best
    ELSE AbsMaxFrom(x, i + 1, IF RLess(best, RAbs(x[i])) THEN RAbs(x[i]) ELSE best)

AbsMax(x) == AbsMaxFrom(x, 1, Zero)

\* x / (np.max(np.abs(x)) + 1e-9), element-wise, in float32.
ScaleToPeak(x) ==
    LET m == AbsMax(x)
    IN  [i \in 1..Len(x) |-> IF m = Zero THEN Zero ELSE RDiv(x[i], m)]

\* Variant: a peak that is defined (as 0) for a zero-size array.
PeakNeverRaises(x) == FALSE

\* np.max over a zero-size array raises ValueError.
PeakRaises(x) == Len(x) = 0

normalize_audio(x) == ScaleToPeak(x)


\* ------------------------------------------------------------- uploads
\* An upload is the byte string of the request, described by what
\* scipy.io.wavfile.read makes of it: ok = FALSE when the bytes are not a
\* WAV container (wavfile.read raises), otherwise the header's sample rate,
\* the channel count and the PCM frames, one tuple of nch integers each.
Amplitudes == (-MaxAmp)..MaxAmp

SeqsOfLength(S, lengths) == UNION {[1..k -> S] : k \in lengths}

Malformed == [ok |-> FALSE, sr |-> 0, nch |-> 1, frames |-> <<>>]

MonoUploads ==
    {[ok |-> TRUE, sr |-> r, nch |-> 1, frames |-> f] :
        r \in SampleRates, f \in SeqsOfLength([1..1 -> Amplitudes], 0..MaxFrames)}

StereoUploads ==
    {[ok |-> TRUE, sr |-> r, nch |-> 2, frames |-> f] :
        r \in SampleRates, f \in SeqsOfLength([1..2 -> Amplitudes], StereoLengths)}

Uploads == {Malformed} \cup MonoUploads \cup StereoUploads

NoUpload == [ok |-> FALSE, sr |-> 0, nch |-> 0, frames |-> <<>>]

\* ----------------------------------------------------------- read_wav
RECURSIVE SumFrom(_, _)
SumFrom(f, c) == IF c = 0 THEN 0 ELSE f[c] + SumFrom(f, c - 1)

\* Variant: channel selection, y[:, 0], in place of the mean.
ChannelFirst(f) == FromInt(f[1])

\* y.mean(axis=1): the arithmetic mean of one frame's channels.
ChannelMean(f) == Rat(SumFrom(f, Len(f)), Len(f))

\* y.astype(np.float32), then the mean over channels when y.ndim == 2
\* (wavfile.read returns a 1-D array for a single channel).
ToMono(up) ==
    [i \in 1..Len(up.frames) |->
        IF up.nch >= 2 THEN ChannelMean(up.frames[i])
        ELSE FromInt(up.frames[i][1])]

\* read_wav: raised is TRUE when wavfile.read or normalize_audio raises.
read_wav(up) ==
    IF ~up.ok THEN [raised |-> TRUE, noisy |-> <<>>, sr |-> 0]
    ELSE LET y == ToMono(up)
         IN  IF PeakRaises(y) THEN [raised |-> TRUE, noisy |-> <<>>, sr |-> 0]
             ELSE [raised |-> FALSE, noisy |-> normalize_audio(y), sr |-> up.sr]

\* ------------------------------------------------------------ padding
\* math.ceil(T / SEGMENT)
CeilFrames(T) == (T + SEGMENT - 1) \div SEGMENT

\* Variant: SEGMENT - T % SEGMENT, a whole extra frame when T is a multiple.
PadAmountExtraFrame(T) == SEGMENT - (T % SEGMENT)

\* pad = (math.ceil(T / SEGMENT) * SEGMENT) - T
PadAmount(T) == (CeilFrames(T) * SEGMENT) - T

\* Index (1-based) of the source sample that numpy's mode='reflect' puts at
\* position j of the padded array: positions past the end walk back from
\* the last sample without repeating it, turning round at either edge; a
\* one-sample array is extended by its only sample.
ReflectIndex(j, n) ==
    IF n = 1 THEN 1
    ELSE LET m == (j - 1) % (2 * (n - 1))
         IN  IF m <= n - 1 THEN m + 1 ELSE 2 * (n - 1) - m + 1

\* np.pad(x, (0, pad), mode='reflect')
np_pad(x, pad) ==
    IF pad = 0 THEN x
    ELSE [j \in 1..(Len(x) + pad) |-> x[ReflectIndex(j, Len(x))]]

\* ---------------------------------------------------------- inference
\* model_wrapper.denoise is an opaque collaborator.  An outcome says what
\* one call does: raise, or return a signal of a length of its own choosing
\* (delta samples away from the input's length: up to a frame shorter, which
\* is shorter than the upload, or up to ExtraOut longer), either the input
\* itself or silence, truncated or zero-extended to that length.
Outcomes ==
    {[kind |-> "raise", delta |-> 0]}
        \cup [kind : {"identity", "silence"}, delta : (-SEGMENT)..ExtraOut]

Resize(x, L) ==
    [i \in 1..L |-> IF i <= Len(x) THEN x[i] ELSE Zero]

\* enhanced_tensor = model_wrapper.denoise(noisy_tensor); with no wrapper
\* the attribute lookup on None raises inside the try block.
model_denoise(mw, oc, x) ==
    IF mw = "None" \/ oc.kind = "raise" THEN [raised |-> TRUE, out |-> <<>>]
    ELSE LET L == IF Len(x) + oc.delta < 0 THEN 0 ELSE Len(x) + oc.delta
             y == IF oc.kind = "silence" THEN [i \in 1..Len(x) |-> Zero] ELSE x
         IN  [raised |-> FALSE, out |-> Resize(y, L)]

\* enhanced_tensor.numpy()[:T]
FirstT(x, T) == SubSeq(x, 1, IF Len(x) < T THEN Len(x) ELSE T)

\* ------------------------------------------------------------ encoder
\* Variant: np.floor before the cast, rounding toward minus infinity.
TruncDivFloor(a, b) == a \div b

\* ndarray.astype(np.int16) of a float: the fraction is dropped, so the
\* value moves toward zero.  a \div b rounds down, hence the case split.
TruncDiv(a, b) == IF a >= 0 THEN a \div b ELSE -((-a) \div b)

\* (y * 32767.0).astype(np.int16) for y = s * 0.99, s the rational <<n, d>>.
Quantize(s) == TruncDiv(s[1] * HeadroomNum * FullScale, s[2] * HeadroomDen)

\* write_wav_bytes(y, sr): the container's sample rate and int16 samples.
write_wav_bytes(y, rate) ==
    LET s == ScaleToPeak(y)
    IN  [sr |-> rate, samples |-> [i \in 1..Len(y) |-> Quantize(s[i])]]

\* The sample rate line 122 hands to write_wav_bytes: the call passes the
\* signal alone, so the parameter takes its default, SR.
EncodeRate(uploadRate) == SR

\* ----------------------------------------------------------- analyzer
\* round(q, 2) of the quotient a / b, in hundredths, ties to even.
Round2(a, b) ==
    LET q == (100 * a) \div b
        r == (100 * a) % b
    IN  IF 2 * r > b \/ (2 * r = b /\ q % 2 = 1) THEN q + 1 ELSE q

\* analyze_audio: of the four fields only "duration" is modelled (the
\* others need a Fourier transform and a square root); N is kept beside it.
analyze_audio(y, rate) ==
    [N |-> Len(y), sr |-> rate, duration |-> Round2(Len(y), rate)]

\* ------------------------------------------------------------- handler
\* Everything denoise does once `await audio.read()` has returned, as the
\* values it leaves behind: the status, the steps taken in order, and the
\* signals of each stage.  body and metadata hold zero or one element.
Failure(code, done, dec, padded, inf) ==
    [status |-> code, steps |-> done, noisy |-> dec.noisy, sr |-> dec.sr,
     noisy_pad |-> padded, inference |-> inf, enhanced |-> <<>>,
     body |-> <<>>, metadata |-> <<>>]

\* Variant: an except clause that falls back to the padded input instead
\* of raising HTTPException(500).
AfterInferenceFallback(dec, padded, inf) ==
    LET enhanced == FirstT(IF inf.raised THEN padded ELSE inf.out, Len(dec.noisy))
    IN  IF PeakRaises(enhanced)
        THEN Failure(500, <<"read", "decode", "pad", "infer", "encode">>,
                     dec, padded, <<inf>>)
        ELSE [status |-> 200,
              steps |-> <<"read", "decode", "pad", "infer", "encode", "analyze">>,
              noisy |-> dec.noisy, sr |-> dec.sr, noisy_pad |-> padded,
              inference |-> <<inf>>, enhanced |-> enhanced,
              body |-> <<write_wav_bytes(enhanced, EncodeRate(dec.sr))>>,
              metadata |-> <<analyze_audio(enhanced, dec.sr)>>]

\* Lines 116-135: the guarded inference call and slice, then the response.
AfterInference(dec, padded, inf) ==
    IF inf.raised
    THEN Failure(500, <<"read", "decode", "pad", "infer">>, dec, padded, <<inf>>)
    ELSE LET enhanced == FirstT(inf.out, Len(dec.noisy))
         IN  IF PeakRaises(enhanced)
             THEN Failure(500, <<"read", "decode", "pad", "infer", "encode">>,
                          dec, padded, <<inf>>)
             ELSE [status |-> 200,
                   steps |-> <<"read", "decode", "pad", "infer", "encode", "analyze">>,
                   noisy |-> dec.noisy, sr |-> dec.sr, noisy_pad |-> padded,
                   inference |-> <<inf>>, enhanced |-> enhanced,
                   body |-> <<write_wav_bytes(enhanced, EncodeRate(dec.sr))>>,
                   metadata |-> <<analyze_audio(enhanced, dec.sr)>>]

\* Lines 105-135.
Pipeline(mw, up, oc) ==
    LET dec == read_wav(up)
    IN  IF dec.raised THEN Failure(400, <<"read", "decode">>, dec, <<>>, <<>>)
        ELSE LET padded == np_pad(dec.noisy, PadAmount(Len(dec.noisy)))
             IN  AfterInference(dec, padded, model_denoise(mw, oc, padded))

\* Variant: the handler without its availability test.
UnavailableNever(mw) == FALSE

\* Line 101: the availability test.
Unavailable(mw) == mw = "None"

\* Variant: an except clause that does not reset the handle.
LoadResultStale(ok) == "loaded"

\* What load_model leaves in model_wrapper.
LoadResult(ok) == IF ok THEN "loaded" ELSE "None"

\* --------------------------------------------------------------- state
VARIABLES
    phase,          \* "startup" until the startup hook has run, then "serving"
    model_wrapper,  \* the global: "None" or "loaded"
    loads,          \* how the load attempts ended, in order
    pc,             \* the request: "idle", "reading" (at the await), "done"
    upload,         \* the request's upload
    resp            \* what the request has done and produced

vars == <<phase, model_wrapper, loads, pc, upload, resp>>

Blank ==
    [status |-> 0, steps |-> <<>>, noisy |-> <<>>, sr |-> 0, noisy_pad |-> <<>>,
     inference |-> <<>>, enhanced |-> <<>>, body |-> <<>>, metadata |-> <<>>]

\* Line 19: model_wrapper = None at import; no request is in flight.
Init ==
    /\ phase = "startup"
    /\ model_wrapper = "None"
    /\ loads = <<>>
    /\ pc = "idle"
    /\ upload = NoUpload
    /\ resp = Blank

\* The startup hook, run once before the server accepts requests.
load_model(ok) ==
    /\ phase = "startup"
    /\ model_wrapper' = LoadResult(ok)
    /\ loads' = Append(loads, IF ok THEN "loaded" ELSE "failed")
    /\ phase' = "serving"
    /\ UNCHANGED <<pc, upload, resp>>

\* A request arrives: lines 100-105, up to the await.
denoise_begin(up) ==
    /\ phase = "serving"
    /\ pc = "idle"
    /\ upload' = up
    /\ IF Unavailable(model_wrapper)
       THEN /\ pc' = "done"
            /\ resp' = [Blank EXCEPT !.status = 503]
       ELSE /\ pc' = "reading"
            /\ resp' = Blank
    /\ UNCHANGED <<phase, model_wrapper, loads>>

\* The read completes and the handler runs to its response: lines 105-135.
denoise_resume(oc) ==
    /\ pc = "reading"
    /\ resp' = Pipeline(model_wrapper, upload, oc)
    /\ pc' = "done"
    /\ UNCHANGED <<phase, model_wrapper, loads, upload>>

\* The response has been sent; the request's values are dropped.
denoise_end ==
    /\ pc = "done"
    /\ pc' = "idle"
    /\ upload' = NoUpload
    /\ resp' = Blank
    /\ UNCHANGED <<phase, model_wrapper, loads>>

Next ==
    \/ \E ok \in BOOLEAN : load_model(ok)
    \/ \E up \in Uploads : denoise_begin(up)
    \/ \E oc \in Outcomes : denoise_resume(oc)
    \/ denoise_end

Spec == Init /\ [][Next]_vars

\* --------------------------------------------------- shorthand for claims
Done == pc = "done"
Decoded == Done /\ "pad" \in {resp.steps[i] : i \in 1..Len(resp.steps)}
Succeeded == Done /\ resp.status = 200
InferenceReturned == Done /\ resp.inference # <<>> /\ ~resp.inference[1].raised
InferCalls == Cardinality({i \in 1..Len(resp.steps) : resp.steps[i] = "infer"})
NoOutput == resp.body = <<>> /\ resp.metadata = <<>> /\ resp.enhanced = <<>>

\* C1: a request that arrives while model_wrapper is None ends at once with
\* status 503, having read, decoded, padded and inferred nothing; a request
\* that got past the check found the capability set.
C1_UnavailableFailsFast ==
    [][ /\ (model_wrapper = "None" /\ pc = "idle" /\ pc' # "idle")
            => (pc' = "done" /\ resp'.status = 503 /\ resp'.steps = <<>>
                /\ resp'.noisy = <<>> /\ resp'.noisy_pad = <<>>
                /\ resp'.inference = <<>> /\ resp'.body = <<>>
                /\ resp'.metadata = <<>>)
        /\ (pc' = "reading" => model_wrapper = "loaded")
        /\ (pc' = "done" /\ resp'.steps # <<>> => model_wrapper = "loaded") ]_vars

C1_Witness ==
    Done /\ model_wrapper = "None" /\ resp.status = 503 /\ upload.ok
    /\ Len(upload.frames) > 0

\* C2: a failed startup load leaves the server running with the capability
\* unset, is never repeated, and makes every request end with 503; once
\* startup is over no step changes model_wrapper.
C2_LoadOnceHandleStable ==
    [][ /\ (phase = "serving"
              => model_wrapper' = model_wrapper /\ loads' = loads
                 /\ phase' = "serving")
        /\ Len(loads') <= 1
        /\ (loads' = <<"failed">>
              => /\ phase' = "serving"
                 /\ model_wrapper' = "None"
                 /\ pc' # "reading"
                 /\ (pc' = "done" => resp'.status = 503)) ]_vars

C2_Witness ==
    loads = <<"failed">> /\ Done /\ resp.status = 503 /\ upload.ok

\* C3: with the capability loaded, an upload that is no WAV container, or
\* one that holds zero samples, ends with 400; inference is not called and
\* neither audio nor metadata is returned.
C3_BadUploadIs400 ==
    (Done /\ model_wrapper = "loaded"
          /\ (~upload.ok \/ Len(upload.frames) = 0))
        => (resp.status = 400 /\ InferCalls = 0 /\ resp.inference = <<>>
            /\ NoOutput)

C3_Witness ==
    Done /\ model_wrapper = "loaded" /\ upload.ok /\ upload.nch = 2
    /\ Len(upload.frames) = 0 /\ resp.status = 400

\* C4: when inference returns a signal whose length differs from the padded
\* input's, the request ends with 500 and returns no audio.
C4_MismatchedLengthIs500 ==
    (InferenceReturned
        /\ Len(resp.inference[1].out) # Len(resp.noisy_pad))
        => (resp.status = 500 /\ NoOutput)

\* C5: when the inference call raises, the request ends with 500 after one
\* call and returns neither audio nor metadata; every finished request is a
\* complete 200 response or an error status without output.
C5_RaiseIs500NoPartial ==
    /\ (Done /\ resp.inference # <<>> /\ resp.inference[1].raised)
          => (resp.status = 500 /\ InferCalls = 1 /\ NoOutput)
    /\ InferCalls <= 1
    /\ Done => \/ /\ resp.status = 200
                  /\ resp.body # <<>> /\ resp.metadata # <<>>
                  /\ Len(resp.body[1].samples) = resp.metadata[1].N
               \/ /\ resp.status \in {400, 500, 503}
                  /\ NoOutput

C5_Witness ==
    Done /\ model_wrapper = "loaded" /\ resp.inference # <<>>
    /\ resp.inference[1].raised /\ resp.status = 500
    /\ Len(resp.noisy_pad) > Len(resp.noisy)

\* C6: the padded signal handed to inference has the smallest multiple of
\* SEGMENT that is >= T as its length (no padding when T is a multiple), and
\* starts with the T decoded samples in order.
C6_PadToFrameMultiple ==
    Decoded =>
        LET T == Len(resp.noisy)
            P == Len(resp.noisy_pad)
        IN  /\ T >= 1
            /\ P % SEGMENT = 0
            /\ P >= T
            /\ P - T < SEGMENT
            /\ (T % SEGMENT = 0 => resp.noisy_pad = resp.noisy)
            /\ \A i \in 1..T : resp.noisy_pad[i] = resp.noisy[i]
            /\ (resp.inference # <<>> /\ ~resp.inference[1].raised
                  /\ Len(resp.inference[1].out) = P
                  /\ resp.inference[1].out # [i \in 1..P |-> Zero]
                  => resp.inference[1].out = resp.noisy_pad)

C6_Witness ==
    Decoded /\ Len(resp.noisy) >= 2 /\ Len(resp.noisy) % SEGMENT # 0
    /\ Len(resp.noisy_pad) > Len(resp.noisy)
    /\ resp.noisy[1] # resp.noisy[2]

\* C7: every successful request on an upload of T samples returns exactly T
\* samples, and when inference is the identity they are the decoded signal.
C7_ReturnsExactlyT ==
    Succeeded =>
        /\ Len(resp.body[1].samples) = Len(upload.frames)
        /\ Len(resp.enhanced) = Len(upload.frames)
        /\ (resp.inference[1].out = resp.noisy_pad => resp.enhanced = resp.noisy)

\* C8: the returned WAV carries the upload's sample rate, so the reported
\* duration N / sr is the returned clip's sample count over the rate stored
\* in the returned WAV.
C8_WavAtUploadRate ==
    Succeeded =>
        /\ resp.body[1].sr = upload.sr
        /\ resp.metadata[1].N * resp.body[1].sr
             = Len(resp.body[1].samples) * resp.metadata[1].sr

\* ------------------------------------------- independent reference values
\* The largest of a non-empty set of naturals.
MaxOf(S) == CHOOSE m \in S : \A k \in S : k <= m

\* Sum of the channels of frame i of the upload, and the largest magnitude
\* of such a sum over the upload.
FrameSum(i) == upload.frames[i][1] + upload.frames[i][2]
PeakSum == MaxOf({Abs(FrameSum(j)) : j \in 1..Len(upload.frames)})

StereoDecoded == Decoded /\ upload.nch = 2
SilentA == \A i \in 1..Len(upload.frames) : upload.frames[i][1] = 0

\* C9 as stated: with channel A silent the decoded sample i is half of
\* channel B's sample i.
C9_HalfTheTone ==
    (StereoDecoded /\ SilentA) =>
        \A i \in 1..Len(upload.frames) :
            /\ Len(resp.noisy) = Len(upload.frames)
            /\ 2 * resp.noisy[i][1] = upload.frames[i][2] * resp.noisy[i][2]

\* C9 amended: the decoder returns the per-sample mean of the channels
\* divided by the peak magnitude of that mean (0 for a silent upload); with
\* channel A silent that is channel B's sample over channel B's peak.
C9_NormalizedChannelMean ==
    StereoDecoded =>
        /\ Len(resp.noisy) = Len(upload.frames)
        /\ \A i \in 1..Len(upload.frames) :
              LET x == resp.noisy[i]
              IN  /\ x[2] > 0
                  /\ x[1] * PeakSum = FrameSum(i) * x[2]
                  /\ (PeakSum = 0 => x[1] = 0)
                  /\ (SilentA /\ PeakSum # 0 =>
                        x[1] * PeakSum = upload.frames[i][2] * x[2])

C9_Witness ==
    /\ StereoDecoded /\ SilentA /\ Len(upload.frames) = 2
    /\ upload.frames[1][2] # 0 /\ upload.frames[2][2] = -upload.frames[1][2]
    /\ resp.noisy[1] # Rat(upload.frames[1][2], 2)

\* The encoder's input sample i over the input's peak, times 0.99 * 32767,
\* as a fraction Num / Den with Den > 0 (0 / 1 for a silent input).
EncPeak ==
    CHOOSE p \in {RAbs(resp.enhanced[j]) : j \in 1..Len(resp.enhanced)} :
        \A j \in 1..Len(resp.enhanced) : ~RLess(p, RAbs(resp.enhanced[j]))
ScaledNum(i) ==
    IF EncPeak[1] = 0 THEN 0
    ELSE resp.enhanced[i][1] * EncPeak[2] * HeadroomNum * FullScale
ScaledDen(i) ==
    IF EncPeak[1] = 0 THEN 1
    ELSE resp.enhanced[i][2] * EncPeak[1] * HeadroomDen

\* C10 as stated: every output sample is the nearest integer to the scaled
\* value and lies in [-32767, 32767].
C10_RoundToNearest ==
    Succeeded =>
        \A i \in 1..Len(resp.body[1].samples) :
            LET q == resp.body[1].samples[i]
            IN  /\ 2 * Abs(ScaledNum(i) - q * ScaledDen(i)) <= ScaledDen(i)
                /\ q >= -FullScale /\ q <= FullScale

\* C10 amended: every output sample is the scaled value with its fraction
\* dropped (toward zero), and lies in [-32767, 32767].
C10_TruncateTowardZero ==
    Succeeded =>
        /\ Len(resp.body[1].samples) = Len(resp.enhanced)
        /\ \A i \in 1..Len(resp.body[1].samples) :
              LET q == resp.body[1].samples[i]
              IN  /\ Abs(q) * ScaledDen(i) <= Abs(ScaledNum(i))
                  /\ Abs(ScaledNum(i)) < (Abs(q) + 1) * ScaledDen(i)
                  /\ (q > 0 => ScaledNum(i) > 0)
                  /\ (q < 0 => ScaledNum(i) < 0)
                  /\ q >= -FullScale /\ q <= FullScale

C10_Witness ==
    /\ Succeeded
    /\ \E i \in 1..Len(resp.body[1].samples) :
          /\ resp.body[1].samples[i] < 0
          /\ 2 * Abs(ScaledNum(i) - resp.body[1].samples[i] * ScaledDen(i))
               > ScaledDen(i)

=============================================================================
